---- MODULE Spec2Model ----
(***************************************************************************)
(* Cache replacement policies of mipt-mips (CacheReplacement.cpp):         *)
(* LRUCacheInfo (std::list + std::unordered_map of list iterators),        *)
(* Pseudo_LRUCacheInfo (core::tree<node> of direction flags) and the       *)
(* factory create_cache_replacement.                                       *)
(***************************************************************************)
EXTENDS Integers, Sequences, FiniteSets, TLC

(* ------------------------------ bounds --------------------------------- *)
\* largest way count passed to the LRUCacheInfo constructor
MaxLRUWays == 3
\* largest way count passed to the Pseudo_LRUCacheInfo constructor
MaxPseudoWays == 8
\* largest way index passed to touch / set_to_erase / allocate
MaxWayArg == 5
\* longest lru_list allocate() is followed to
MaxListLen == 3
\* longest recorded run of back-to-back update() calls
MaxRun == 9
\* the same, once allocate() has been called on the instance
MaxDirtyRun == 2
\* modelled width of std::size_t in bits (64 in the build)
SizeTBits == 10
\* largest way count the construction of the tree alone is followed to
MaxTreeWays == 256

(* ----------------------------- constants ------------------------------- *)
INT8_MIN == -128
Left == 0
Right == 1

SizeTMod == 2 ^ SizeTBits

\* the policy names create_cache_replacement is called with
Names == {"LRU", "Pseudo-LRU", "pseudo-LRU", "lru", "bogus"}

(* ------------------------- integer conversions ------------------------- *)
\* int -> std::size_t (return of Pseudo_LRUCacheInfo::update, node( way))
ToSizeT(v) == v % SizeTMod

\* std::size_t -> int (node( way) in Pseudo_LRUCacheInfo::touch)
ToInt(w) == IF w >= SizeTMod \div 2 THEN w - SizeTMod ELSE w

\* the C++ remainder: its sign follows the dividend
CppRem(a, b) == IF a >= 0 THEN a % b ELSE -((-a) % b)

(* --------------------- std::list / std::unordered_map ------------------ *)
\* The pair st = [list, hash] is lru_list and lru_hash.  list is the sequence
\* of the values of the list's nodes, head first.  A list iterator is the
\* position of the node it points at: an operation that moves nodes moves the
\* iterators held in hash with them, and an iterator whose node was removed
\* becomes 0 (dangling).
\* lru_list.push_front( v)
PushFront(st, v) ==
    [list |-> <<v>> \o st.list,
     hash |-> [k \in DOMAIN st.hash |->
                  IF st.hash[k] = 0 THEN 0 ELSE st.hash[k] + 1]]

\* lru_list.pop_back()
PopBack(st) ==
    [list |-> SubSeq(st.list, 1, Len(st.list) - 1),
     hash |-> [k \in DOMAIN st.hash |->
                  IF st.hash[k] = Len(st.list) THEN 0 ELSE st.hash[k]]]

Without(l, p) == SubSeq(l, 1, p - 1) \o SubSeq(l, p + 1, Len(l))

\* lru_list.splice( lru_list.begin(), lru_list, it)
SpliceToBegin(st, it) ==
    [list |-> <<st.list[it]>> \o Without(st.list, it),
     hash |-> [k \in DOMAIN st.hash |->
                  IF st.hash[k] = it THEN 1
                  ELSE IF st.hash[k] # 0 /\ st.hash[k] < it THEN st.hash[k] + 1
                  ELSE st.hash[k]]]

\* lru_list.splice( lru_list.end(), lru_list, it)
SpliceToEnd(st, it) ==
    [list |-> Without(st.list, it) \o <<st.list[it]>>,
     hash |-> [k \in DOMAIN st.hash |->
                  IF st.hash[k] = it THEN Len(st.list)
                  ELSE IF st.hash[k] > it THEN st.hash[k] - 1
                  ELSE st.hash[k]]]

\* lru_hash.emplace( k, it): no effect when the key is present
Emplace(st, k, it) ==
    [list |-> st.list,
     hash |-> IF k \in DOMAIN st.hash THEN st.hash ELSE st.hash @@ (k :> it)]

\* lru_hash.insert_or_assign( k, it)
InsertOrAssign(st, k, it) == [list |-> st.list, hash |-> (k :> it) @@ st.hash]

\* lru_hash.erase( k)
HashErase(st, k) ==
    [list |-> st.list, hash |-> [x \in DOMAIN st.hash \ {k} |-> st.hash[x]]]

EmptyHash == [x \in {} |-> 0]

(* ------------------------------ LRUCacheInfo --------------------------- *)
\* variant: the loop appends with push_back
LRUCtorStep_back(st, k) ==
    [list |-> Append(st.list, k), hash |-> st.hash @@ (k :> Len(st.list) + 1)]

\* the body of the constructor's loop
LRUCtorStep(st, k) == Emplace(PushFront(st, k), k, 1)

RECURSIVE LRUCtorLoop(_, _, _)
LRUCtorLoop(k, n, st) ==
    IF k < n THEN LRUCtorLoop(k + 1, n, LRUCtorStep(st, k)) ELSE st

LRUCtor(n) == LRUCtorLoop(0, n, [list |-> <<>>, hash |-> EmptyHash])

\* variant: touch() splices to the tail
LRUTouch_toEnd(st, way) == SpliceToEnd(st, st.hash[way])

LRUTouch(st, way) == SpliceToBegin(st, st.hash[way])

\* variant: set_to_erase() splices to the head
LRUSetToErase_toBegin(st, way) == SpliceToBegin(st, st.hash[way])

LRUSetToErase(st, way) == SpliceToEnd(st, st.hash[way])

\* variant: the element is taken from the head
LruElem_front(l) == l[1]

\* the element update() and erase_lru_element() take: lru_list.back()
LruElem(l) == l[Len(l)]

LRUUpdate(st) ==
    LET lru_elem == LruElem(st.list)
    IN InsertOrAssign(PushFront(PopBack(st), lru_elem), lru_elem, 1)

EraseLruElement(st) == HashErase(PopBack(st), LruElem(st.list))

\* variant: eviction only once the map is over capacity
NeedsEviction_gt(st, n) == Cardinality(DOMAIN st.hash) > n

NeedsEviction(st, n) == Cardinality(DOMAIN st.hash) >= n

LRUAllocate(st, n, way) ==
    Emplace(PushFront(IF NeedsEviction(st, n) THEN EraseLruElement(st) ELSE st,
                      way),
            way, 1)

(* ------------------------- core::tree<node> ---------------------------- *)
\* The tree is the sequence of its nodes in creation order, the root first;
\* an iterator is a node's index, 0 is the end iterator.  out is the parent,
\* kids the children in operator< order, level the depth.
Node(new_value, new_pointer) == [value |-> new_value, pointer |-> new_pointer]

\* variant: the root's flag starts as Right
RootNode_right ==
    [value |-> INT8_MIN, pointer |-> 1, out |-> 0, kids |-> <<>>, level |-> 0]

RootNode ==
    [value |-> INT8_MIN, pointer |-> 0, out |-> 0, kids |-> <<>>, level |-> 0]

\* iterator::insert: a new child of node_it, placed by operator< (on value)
TreeInsert(nodes, node_it, nd) ==
    LET ks == nodes[node_it].kids
        lower == SelectSeq(ks, LAMBDA k : nodes[k].value < nd.value)
        upper == SelectSeq(ks, LAMBDA k : ~(nodes[k].value < nd.value))
        child == [value |-> nd.value, pointer |-> nd.pointer, out |-> node_it,
                  kids |-> <<>>, level |-> nodes[node_it].level + 1]
    IN Append([nodes EXCEPT ![node_it].kids = lower \o <<Len(nodes) + 1>> \o upper],
              child)

\* the descendants of the nodes ks[j..], depth first
RECURSIVE Descendants(_, _, _)
Descendants(nodes, ks, j) ==
    IF j > Len(ks)
    THEN <<>>
    ELSE <<ks[j]>> \o Descendants(nodes, nodes[ks[j]].kids, 1)
                   \o Descendants(nodes, ks, j + 1)

\* tree_find_depth( node( v)): the first descendant of the root that is
\* operator== to the key (equal value), or the end iterator
TreeFindDepth(nodes, v) ==
    LET hits == SelectSeq(Descendants(nodes, nodes[1].kids, 1),
                          LAMBDA k : nodes[k].value = v)
    IN IF hits = <<>> THEN 0 ELSE hits[1]

(* --------------------------- Pseudo_LRUCacheInfo ----------------------- *)
\* one pass of the calculate_depth loop body on an even numerator
HalveNumerator(numer) == numer \div 2

\* variant: the parity test is missing
NotPowerOfTwo_never(numer) == FALSE

\* the test that makes calculate_depth throw
NotPowerOfTwo(numer) == numer % 2 # 0

RECURSIVE ConstructTree(_, _, _)
ConstructTree(st, node_it, max_depth) ==
    IF st.nodes[node_it].level < max_depth
    THEN IF st.nodes[node_it].level # max_depth - 1
         THEN LET left_it == Len(st.nodes) + 1
                  s1 == [nodes |-> TreeInsert(st.nodes, node_it,
                                              Node(st.node_iterator, Left)),
                         leaf_iterator |-> st.leaf_iterator,
                         node_iterator |-> st.node_iterator + 1]
                  right_it == Len(s1.nodes) + 1
                  s2 == [nodes |-> TreeInsert(s1.nodes, node_it,
                                              Node(s1.node_iterator, Left)),
                         leaf_iterator |-> s1.leaf_iterator,
                         node_iterator |-> s1.node_iterator + 1]
              IN ConstructTree(ConstructTree(s2, left_it, max_depth),
                               right_it, max_depth)
         ELSE LET s1 == [nodes |-> TreeInsert(st.nodes, node_it,
                                              Node(st.leaf_iterator, 0)),
                         leaf_iterator |-> st.leaf_iterator + 1,
                         node_iterator |-> st.node_iterator]
              IN [nodes |-> TreeInsert(s1.nodes, node_it,
                                       Node(s1.leaf_iterator, 0)),
                  leaf_iterator |-> s1.leaf_iterator + 1,
                  node_iterator |-> s1.node_iterator]
    ELSE st

\* variant: the flag is written back unchanged
ReverseFlag_same(flag) == flag

ReverseFlag(flag) == IF flag = Left THEN Right ELSE Left

\* variant: every node is taken for a left child
WhichSibling_left(nd) == Left

WhichSibling(nd) == IF CppRem(nd.value, 2) = 0 THEN Left ELSE Right

\* variant: the loop stops after the parent of the found node
TouchWalk_parentOnly(nodes, i) ==
    IF i = 1
    THEN nodes
    ELSE LET p == nodes[i].out
         IN IF WhichSibling(nodes[i]) = nodes[p].pointer
            THEN [nodes EXCEPT ![p].pointer = ReverseFlag(@)]
            ELSE nodes

\* the loop of touch: from the found node up to the root
RECURSIVE TouchWalk(_, _)
TouchWalk(nodes, i) ==
    IF i = 1
    THEN nodes
    ELSE LET p == nodes[i].out
         IN TouchWalk(IF WhichSibling(nodes[i]) = nodes[p].pointer
                      THEN [nodes EXCEPT ![p].pointer = ReverseFlag(@)]
                      ELSE nodes,
                      p)

\* the loop of update: follow the flags from node_it down to a leaf
RECURSIVE Descend(_, _)
Descend(nodes, node_it) ==
    IF Len(nodes[node_it].kids) # 0
    THEN Descend(nodes, IF nodes[node_it].pointer = Left
                        THEN nodes[node_it].kids[1]
                        ELSE nodes[node_it].kids[2])
    ELSE node_it

\* touch( way): found is the end iterator (0) when no descendant of the root
\* has the value; walking up from it is undefined
PseudoTouch(nodes, way) ==
    LET found_it == TreeFindDepth(nodes, ToInt(way))
    IN IF found_it = 0
       THEN [defined |-> FALSE, nodes |-> nodes]
       ELSE [defined |-> TRUE, nodes |-> TouchWalk(nodes, found_it)]

\* update(): the victim leaf, the touch of its value, the returned value
PseudoUpdate(nodes) ==
    LET node_it == Descend(nodes, 1)
        way == ToSizeT(nodes[node_it].value)
        t == PseudoTouch(nodes, way)
    IN [defined |-> t.defined, nodes |-> t.nodes, ret |-> way]

\* variant: set_to_erase returns without throwing
PseudoSetToErase_silent(nodes, way) == [nodes |-> nodes, what |-> ""]

\* set_to_erase( way) and allocate( way) of Pseudo-LRU: the tree they leave
\* and the message of the exception they throw
PseudoSetToErase(nodes, way) ==
    [nodes |-> nodes,
     what |-> "Set_to_erase method is not supposed to be used in perfomance simulation"]

PseudoAllocate(nodes, way) ==
    [nodes |-> nodes,
     what |-> "Allocate method is not supposed to be used in perfomance simulation"]

(* ------------------------------- state --------------------------------- *)
VARIABLES
    pc,             \* "idle" before create; "calc_depth" inside calculate_depth;
                    \* "construct_tree": calculate_depth has returned i;
                    \* "ready": an instance exists; "error": create threw;
                    \* "abort": an assert failed; "ub": undefined behaviour hit
    name,           \* the policy name given to create_cache_replacement
    ways,           \* the const member ways
    lru_list,       \* LRUCacheInfo::lru_list
    lru_hash,       \* LRUCacheInfo::lru_hash
    lru_tree,       \* Pseudo_LRUCacheInfo::lru_tree
    leaf_iterator,  \* Pseudo_LRUCacheInfo::leaf_iterator
    node_iterator,  \* Pseudo_LRUCacheInfo::node_iterator
    numerator,      \* local of calculate_depth
    i,              \* local of calculate_depth
    what,           \* message of the last CacheReplacementException, "" if none
    hist            \* record of the calls made on the instance

vars == <<pc, name, ways, lru_list, lru_hash, lru_tree, leaf_iterator,
          node_iterator, numerator, i, what, hist>>

lruVars == <<lru_list, lru_hash>>
treeVars == <<lru_tree, leaf_iterator, node_iterator>>
loopVars == <<numerator, i>>

\* hist.by / hist.arg: the last call other than update() (\"new\": the
\* constructor) and its argument, for get_ways() what it returned; hist.fresh: that call was the first on the instance;
\* hist.rets: what the update() calls made since have returned, in order;
\* hist.tracked: the last returned way was tracked when update() was called;
\* hist.clean: allocate() has not been called on the instance.
NewHist ==
    [by |-> "new", arg |-> 0, fresh |-> TRUE, rets |-> <<>>,
     tracked |-> TRUE, clean |-> TRUE]

CallHist(op, way) ==
    [by |-> op, arg |-> way, fresh |-> (hist.by = "new" /\ hist.rets = <<>>),
     rets |-> <<>>, tracked |-> TRUE,
     clean |-> (hist.clean /\ op # "allocate")]

UpdateHist(ret, wasTracked) ==
    [hist EXCEPT !.rets = Append(@, ret), !.tracked = wasTracked]

\* the ways a policy instance tracks: the keys of lru_hash, the leaf labels
Leaves == {k \in 1..Len(lru_tree) : Len(lru_tree[k].kids) = 0}

Tracked ==
    IF name = "LRU"
    THEN DOMAIN lru_hash
    ELSE {ToSizeT(lru_tree[k].value) : k \in Leaves}

WayArgs == 0..(IF ways > MaxWayArg THEN ways ELSE MaxWayArg)

Init ==
    /\ pc = "idle"
    /\ name = ""
    /\ ways = 0
    /\ lru_list = <<>>
    /\ lru_hash = EmptyHash
    /\ lru_tree = <<>>
    /\ leaf_iterator = 0
    /\ node_iterator = INT8_MIN
    /\ numerator = 0
    /\ i = 0
    /\ what = ""
    /\ hist = NewHist

(* ------------------------ create_cache_replacement --------------------- *)
\* the policy names the message of the exception lists, one per line
ListedPolicies == <<"LRU", "pseudo-LRU">>

UndefinedPolicy(nm) ==
    "\"" \o nm \o "\" replacement policy is not defined, supported polices are:\n"
         \o ListedPolicies[1] \o "\n" \o ListedPolicies[2] \o "\n"

Create(nm, w) ==
    /\ pc = "idle"
    /\ name' = nm
    /\ ways' = w
    /\ IF nm = "LRU"
       THEN IF w # 0
            THEN /\ pc' = "ready"
                 /\ lru_list' = LRUCtor(w).list
                 /\ lru_hash' = LRUCtor(w).hash
                 /\ UNCHANGED <<treeVars, loopVars, what, hist>>
            ELSE /\ pc' = "abort"
                 /\ UNCHANGED <<lruVars, treeVars, loopVars, what, hist>>
       ELSE IF nm = "Pseudo-LRU"
       THEN /\ pc' = "calc_depth"
            /\ lru_tree' = <<RootNode>>
            /\ numerator' = w
            /\ i' = 0
            /\ UNCHANGED <<lruVars, leaf_iterator, node_iterator, what, hist>>
       ELSE /\ pc' = "error"
            /\ what' = UndefinedPolicy(nm)
            /\ UNCHANGED <<lruVars, treeVars, loopVars, hist>>

\* calculate_depth: one evaluation of the loop condition and what follows
\* it: the return of i, the throw, or one pass of the body
CalculateDepth ==
    /\ pc = "calc_depth"
    /\ IF numerator = 1
       THEN /\ pc' = "construct_tree"
            /\ UNCHANGED <<loopVars, what>>
       ELSE IF NotPowerOfTwo(numerator)
       THEN /\ pc' = "error"
            /\ what' = "Number of ways must be the power of 2!"
            /\ UNCHANGED loopVars
       ELSE /\ i' = (i + 1) % SizeTMod
            /\ numerator' = HalveNumerator(numerator)
            /\ UNCHANGED <<pc, what>>
    /\ UNCHANGED <<name, ways, lruVars, treeVars, hist>>

\* the constructor's call construct_tree( root, calculate_depth())
ConstructTreeCall ==
    /\ pc = "construct_tree"
    /\ LET t == ConstructTree([nodes |-> lru_tree,
                               leaf_iterator |-> leaf_iterator,
                               node_iterator |-> node_iterator], 1, i)
       IN /\ lru_tree' = t.nodes
          /\ leaf_iterator' = t.leaf_iterator
          /\ node_iterator' = t.node_iterator
    /\ pc' = "ready"
    /\ UNCHANGED <<name, ways, lruVars, loopVars, what, hist>>

(* ------------------------------ operations ----------------------------- *)
LRUState == [list |-> lru_list, hash |-> lru_hash]

Touch(way) ==
    /\ pc = "ready"
    /\ IF name = "LRU"
       THEN IF way \in DOMAIN lru_hash
            THEN /\ lru_list' = LRUTouch(LRUState, way).list
                 /\ lru_hash' = LRUTouch(LRUState, way).hash
                 /\ hist' = CallHist("touch", way)
                 /\ what' = ""
                 /\ UNCHANGED <<pc, treeVars>>
            ELSE /\ pc' = "abort"
                 /\ UNCHANGED <<lruVars, treeVars, what, hist>>
       ELSE LET t == PseudoTouch(lru_tree, way)
            IN IF t.defined
               THEN /\ lru_tree' = t.nodes
                    /\ hist' = CallHist("touch", way)
                    /\ what' = ""
                    /\ UNCHANGED <<pc, lruVars, leaf_iterator, node_iterator>>
               ELSE /\ pc' \in {"ub", "ready"}
                    /\ UNCHANGED <<lruVars, treeVars, what, hist>>
    /\ UNCHANGED <<name, ways, loopVars>>

SetToErase(way) ==
    /\ pc = "ready"
    /\ IF name = "LRU"
       THEN IF way \in DOMAIN lru_hash
            THEN /\ lru_list' = LRUSetToErase(LRUState, way).list
                 /\ lru_hash' = LRUSetToErase(LRUState, way).hash
                 /\ hist' = CallHist("set_to_erase", way)
                 /\ what' = ""
                 /\ UNCHANGED <<pc, lru_tree>>
            ELSE /\ pc' = "abort"
                 /\ UNCHANGED <<lruVars, lru_tree, what, hist>>
       ELSE /\ what' = PseudoSetToErase(lru_tree, way).what
            /\ lru_tree' = PseudoSetToErase(lru_tree, way).nodes
            /\ UNCHANGED <<pc, lruVars, hist>>
    /\ UNCHANGED <<name, ways, leaf_iterator, node_iterator, loopVars>>

Allocate(way) ==
    /\ pc = "ready"
    /\ IF name = "LRU"
       THEN /\ NeedsEviction(LRUState, ways) \/ Len(lru_list) < MaxListLen
            /\ lru_list' = LRUAllocate(LRUState, ways, way).list
            /\ lru_hash' = LRUAllocate(LRUState, ways, way).hash
            /\ hist' = CallHist("allocate", way)
            /\ what' = ""
            /\ UNCHANGED lru_tree
       ELSE /\ what' = PseudoAllocate(lru_tree, way).what
            /\ lru_tree' = PseudoAllocate(lru_tree, way).nodes
            /\ UNCHANGED <<lruVars, hist>>
    /\ UNCHANGED <<pc, name, ways, leaf_iterator, node_iterator, loopVars>>

\* the members of the instance
This == [ways |-> ways, lru_list |-> lru_list, lru_tree |-> lru_tree]

\* variant: the current length of the recency list is returned
get_ways_size(this) == Len(this.lru_list)

\* get_ways() const, the same body in both classes
get_ways(this) == this.ways

GetWays ==
    /\ pc = "ready"
    /\ hist' = CallHist("get_ways", get_ways(This))
    /\ what' = ""
    /\ UNCHANGED <<pc, name, ways, lruVars, treeVars, loopVars>>

Update ==
    /\ pc = "ready"
    /\ Len(hist.rets) < (IF hist.clean THEN MaxRun ELSE MaxDirtyRun)
    /\ IF name = "LRU"
       THEN /\ lru_list' = LRUUpdate(LRUState).list
            /\ lru_hash' = LRUUpdate(LRUState).hash
            /\ hist' = UpdateHist(LruElem(lru_list), LruElem(lru_list) \in Tracked)
            /\ what' = ""
            /\ UNCHANGED <<pc, treeVars>>
       ELSE LET u == PseudoUpdate(lru_tree)
            IN IF u.defined
               THEN /\ lru_tree' = u.nodes
                    /\ hist' = UpdateHist(u.ret, u.ret \in Tracked)
                    /\ what' = ""
                    /\ UNCHANGED <<pc, lruVars, leaf_iterator, node_iterator>>
               ELSE \/ /\ pc' = "ub"
                       /\ UNCHANGED <<lruVars, treeVars, what, hist>>
                    \/ /\ hist' = UpdateHist(u.ret, u.ret \in Tracked)
                       /\ what' = ""
                       /\ UNCHANGED <<pc, lruVars, treeVars>>
    /\ UNCHANGED <<name, ways, loopVars>>

Next ==
    \/ \E nm \in Names, w \in 0..MaxPseudoWays :
          w <= (IF nm = "LRU" THEN MaxLRUWays ELSE MaxPseudoWays) /\ Create(nm, w)
    \/ CalculateDepth
    \/ ConstructTreeCall
    \/ \E way \in WayArgs : Touch(way)
    \/ \E way \in WayArgs : SetToErase(way)
    \/ \E way \in WayArgs : Allocate(way)
    \/ Update
    \/ GetWays

Spec == Init /\ [][Next]_vars

\* create_cache_replacement runs to completion on the calling thread: a pass
\* of the calculate_depth loop that can be taken is taken
FairSpec == Spec /\ WF_vars(CalculateDepth)

\* the construction of Pseudo_LRUCacheInfo for way counts up to MaxTreeWays
\* and the first touch on the new instance
TreeNext ==
    \/ \E w \in 0..MaxTreeWays : Create("Pseudo-LRU", w)
    \/ CalculateDepth
    \/ ConstructTreeCall
    \/ \E way \in 0..(ways - 1) :
          hist.by = "new" /\ hist.rets = <<>> /\ Touch(way)

TreeSpec == Init /\ [][TreeNext]_vars

(* ======================= properties of the policies ==================== *)
Ready(nm) == pc = "ready" /\ name = nm

Rets == hist.rets

LastRet == Rets[Len(Rets)]

\* the instance is as the constructor left it
Fresh == hist.by = "new" /\ Rets = <<>>

IsPowerOfTwo(n) == \E e \in 0..n : 2 ^ e = n

(* C1: the recency sequence of Exact-LRU has no duplicate way, is never
   longer than ways, and the mapping holds exactly the ways of the sequence,
   each entry pointing at the one node that holds its way. *)
C1_Consistency ==
    Ready("LRU") =>
        /\ \A a, b \in 1..Len(lru_list) : lru_list[a] = lru_list[b] => a = b
        /\ Len(lru_list) <= ways
        /\ DOMAIN lru_hash = {lru_list[k] : k \in 1..Len(lru_list)}
        /\ \A w \in DOMAIN lru_hash :
              lru_hash[w] \in 1..Len(lru_list) /\ lru_list[lru_hash[w]] = w

(* C2: on a new Exact-LRU with ways = n, update() call number k returns way
   (k - 1) mod n: the first n calls return 0..n-1, the oldest-inserted way
   first, and the returns repeat with period n. *)
C2_RoundTrip ==
    (Ready("LRU") /\ hist.by = "new") =>
        \A k \in 1..Len(Rets) : Rets[k] = (k - 1) % ways

C2_Witness ==
    Ready("LRU") /\ hist.by = "new" /\ ways = 3 /\ Len(Rets) = 2 * ways + 1

(* C3: Exact-LRU with ways = n >= 2 on which allocate was never called:
   after touch(w) the next n - 1 update() calls return n - 1 different
   tracked ways other than w, and the n-th returns w. *)
C3_TouchEffect ==
    (Ready("LRU") /\ ways >= 2 /\ hist.clean /\ hist.by = "touch") =>
        \A k \in 1..Len(Rets) :
            /\ k < ways => /\ Rets[k] # hist.arg
                           /\ Rets[k] \in Tracked
                           /\ \A j \in 1..(k - 1) : Rets[j] # Rets[k]
            /\ k = ways => Rets[k] = hist.arg

C3_Witness ==
    /\ Ready("LRU") /\ ways = 3 /\ hist.clean
    /\ hist.by = "touch" /\ hist.arg = 1 /\ ~hist.fresh
    /\ Len(Rets) = ways

(* C4 as stated: on a new Exact-LRU with ways = 2 the LRU way is 1;
   allocate(5) evicts way 1 and leaves {0, 5} tracked with 5 as MRU, and the
   next update() returns 0. *)
C4_Original ==
    /\ (Ready("LRU") /\ ways = 2 /\ Fresh) => LruElem(lru_list) = 1
    /\ (Ready("LRU") /\ ways = 2 /\ hist.fresh
            /\ hist.by = "allocate" /\ hist.arg = 5) =>
          /\ Rets = <<>> => (DOMAIN lru_hash = {0, 5} /\ lru_list[1] = 5)
          /\ Rets # <<>> => Rets[1] = 0

(* C4: on a new Exact-LRU with ways = 2 the LRU way is 0; allocate(5) evicts
   way 0 and leaves {1, 5} tracked with 5 as MRU, and the next update()
   returns 1. *)
C4_AllocateEviction ==
    /\ (Ready("LRU") /\ ways = 2 /\ Fresh) => LruElem(lru_list) = 0
    /\ (Ready("LRU") /\ ways = 2 /\ hist.fresh
            /\ hist.by = "allocate" /\ hist.arg = 5) =>
          /\ Rets = <<>> => /\ DOMAIN lru_hash = {1, 5}
                            /\ lru_list = <<5, 1>>
                            /\ lru_hash[5] = 1
          /\ Rets # <<>> => Rets[1] = 1

C4_Witness ==
    /\ Ready("LRU") /\ ways = 2 /\ hist.fresh
    /\ hist.by = "allocate" /\ hist.arg = 5 /\ Len(Rets) = 1

(* C5 as stated: a new Exact-LRU holds way i at position i of the recency
   sequence (counted from the MRU end), and for ways = 3 the first three
   update() calls return 2, 1, 0. *)
C5_Original ==
    /\ (Ready("LRU") /\ Fresh) =>
          \A k \in 0..(ways - 1) : lru_list[k + 1] = k
    /\ (Ready("LRU") /\ ways = 3 /\ hist.by = "new") =>
          \A k \in 1..Len(Rets) : k <= 3 => Rets[k] = <<2, 1, 0>>[k]

(* C5: a new Exact-LRU holds way i at position i counted from the LRU end
   (head to tail the sequence is ways-1, ..., 0), and for ways = 3 the first
   three update() calls return 0, 1, 2. *)
C5_InitialOrder ==
    /\ (Ready("LRU") /\ Fresh) =>
          /\ Len(lru_list) = ways
          /\ \A k \in 0..(ways - 1) : lru_list[ways - k] = k
    /\ (Ready("LRU") /\ ways = 3 /\ hist.by = "new") =>
          \A k \in 1..Len(Rets) : k <= 3 => Rets[k] = <<0, 1, 2>>[k]

C5_Witness ==
    Ready("LRU") /\ ways = 3 /\ hist.by = "new" /\ Len(Rets) = 3

(* C6: for both policies the way update() returns is tracked by the policy
   when update() is called and is an index in [0, ways). *)
C6_VictimValid ==
    (pc = "ready" /\ Rets # <<>>) =>
        hist.tracked /\ LastRet \in 0..(ways - 1)

(* C7: for both policies with ways >= 2, two update() calls made back to
   back return two different ways. *)
C7_UpdateCommits ==
    (pc = "ready" /\ ways >= 2 /\ Len(Rets) >= 2) =>
        LastRet # Rets[Len(Rets) - 1]

(* C8: constructing Pseudo-LRU with ways >= 1 ends with an instance exactly
   when ways is a power of two and with the power-of-two exception exactly
   when it is not; calculate_depth keeps numerator * 2^i = ways until then. *)
C8_PowerOfTwo ==
    (name = "Pseudo-LRU" /\ ways >= 1) =>
        /\ pc = "calc_depth" => numerator >= 1 /\ numerator * 2 ^ i = ways
        /\ pc = "construct_tree" => 2 ^ i = ways
        /\ pc = "error" => /\ ~IsPowerOfTwo(ways)
                           /\ what = "Number of ways must be the power of 2!"
        /\ pc \in {"ready", "ub"} => IsPowerOfTwo(ways)

C8_Witness ==
    name = "Pseudo-LRU" /\ ways = 6 /\ pc = "error" /\ i = 1

(* C9: create(name, 0) for "LRU" and for "Pseudo-LRU" ends in a construction
   error and never returns an instance. *)
C9_ZeroWaysRejected ==
    /\ [](name \in {"LRU", "Pseudo-LRU"} /\ ways = 0 => pc # "ready")
    /\ (name \in {"LRU", "Pseudo-LRU"} /\ ways = 0) ~> (pc \in {"error", "abort"})

(* C10: Pseudo-LRU with ways = 1 is a single leaf labelled 0, and every
   update() returns 0. *)
C10_SingleWay ==
    (name = "Pseudo-LRU" /\ ways = 1 /\ pc = "ready") =>
        /\ Len(lru_tree) = 1
        /\ lru_tree[1].value = 0
        /\ \A k \in 1..Len(Rets) : Rets[k] = 0

(* ------------------- the shape of the Pseudo-LRU tree ------------------ *)
Internal == {k \in 1..Len(lru_tree) : Len(lru_tree[k].kids) # 0}

\* the labels of the leaves, leftmost leaf first
LeafLabels ==
    LET order == <<1>> \o Descendants(lru_tree, lru_tree[1].kids, 1)
        leaves == SelectSeq(order, LAMBDA k : Len(lru_tree[k].kids) = 0)
    IN [k \in 1..Len(leaves) |-> lru_tree[leaves[k]].value]

AllLeft == \A k \in Internal : lru_tree[k].pointer = Left

(* C11: a new Pseudo-LRU with a power-of-two ways >= 2 has every direction
   flag Left and its leaves labelled 0..ways-1 from left to right, and its
   first update() returns way 0. *)
C11_InitialVictim ==
    (Ready("Pseudo-LRU") /\ ways >= 2 /\ hist.by = "new") =>
        /\ Rets = <<>> => /\ AllLeft
                          /\ LeafLabels = [k \in 1..ways |-> k - 1]
        /\ Rets # <<>> => Rets[1] = 0

C11_Witness ==
    Ready("Pseudo-LRU") /\ ways = 4 /\ hist.by = "new" /\ Len(Rets) = 1

(* C12: Pseudo-LRU with a power-of-two ways >= 2: update() called right
   after touch(w), w in [0, ways), returns a tracked way other than w (one
   of 1, 2, 3 after touch(0) on a new instance with ways = 4). *)
C12_TouchThenUpdate ==
    (Ready("Pseudo-LRU") /\ ways >= 2 /\ hist.by = "touch" /\ Rets # <<>>) =>
        /\ Rets[1] # hist.arg
        /\ Rets[1] \in 0..(ways - 1)

C12_Witness ==
    /\ Ready("Pseudo-LRU") /\ ways = 4 /\ hist.by = "touch" /\ hist.arg = 0
    /\ hist.fresh /\ Len(Rets) = 1 /\ Rets[1] \in {1, 2, 3}

(* C13: on a Pseudo-LRU instance, in every reachable state and for every
   argument, set_to_erase and allocate throw and leave every direction flag,
   and so the next victim, as it was. *)
C13_Unsupported ==
    [][\A way \in WayArgs :
          (Ready("Pseudo-LRU") /\ (SetToErase(way) \/ Allocate(way))) =>
              /\ what' # ""
              /\ what' = IF SetToErase(way)
                         THEN "Set_to_erase method is not supposed to be used in perfomance simulation"
                         ELSE "Allocate method is not supposed to be used in perfomance simulation"
              /\ lru_tree' = lru_tree
              /\ Descend(lru_tree', 1) = Descend(lru_tree, 1)
              /\ pc' = pc]_vars

C13_Witness ==
    /\ Ready("Pseudo-LRU") /\ ways = 4 /\ ~AllLeft
    /\ what = "Set_to_erase method is not supposed to be used in perfomance simulation"

(* C14: create(name, ways) builds an Exact-LRU exactly for the name "LRU"
   and a Pseudo-LRU exactly for "Pseudo-LRU"; every other name throws the
   unknown-policy exception, and every name that exception's message lists
   is a name create accepts. *)
C14_Factory ==
    pc # "idle" =>
        /\ (name = "LRU") <=> (lru_list # <<>> \/ pc = "abort")
        /\ (name = "Pseudo-LRU") <=> (lru_tree # <<>>)
        /\ name \notin {"LRU", "Pseudo-LRU"} =>
               pc = "error" /\ what = UndefinedPolicy(name)
        /\ \A k \in 1..Len(ListedPolicies) :
               name = ListedPolicies[k] => what # UndefinedPolicy(name)

(* C15: for both policies touch(way), and for Exact-LRU also
   set_to_erase(way), called with a way that is not tracked fails at the
   call and leaves the recency sequence, the mapping and the direction flags
   exactly as they were. *)
C15_UntrackedFailsFast ==
    [][\A way \in WayArgs :
          (/\ pc = "ready"
           /\ way \notin Tracked
           /\ Touch(way) \/ (name = "LRU" /\ SetToErase(way))) =>
              /\ pc' = "abort" \/ (what' # "" /\ what' # what)
              /\ UNCHANGED <<lru_list, lru_hash, lru_tree>>]_vars

(* C16: for both policies get_ways() returns the way count given to the
   constructor, in every reachable state and whatever calls were made, and
   get_ways() changes nothing of the instance. *)
C16_Capacity ==
    /\ [](pc = "ready" /\ hist.by = "get_ways" => hist.arg = ways)
    /\ [][/\ \A nm \in Names, w \in 0..MaxPseudoWays :
                Create(nm, w) => ways' = w
          /\ pc # "idle" => ways' = ways
          /\ GetWays => /\ hist'.arg = ways
                        /\ UNCHANGED <<pc, name, ways, lruVars, treeVars>>]_vars

C16_Witness ==
    /\ Ready("LRU") /\ hist.by = "get_ways" /\ hist.arg = ways
    /\ ~hist.fresh /\ ~hist.clean /\ Len(Rets) = 1

(* the consistency invariant of Exact-LRU, as a predicate of the state *)
LRUConsistent ==
    /\ \A a, b \in 1..Len(lru_list) : lru_list[a] = lru_list[b] => a = b
    /\ Len(lru_list) <= ways
    /\ DOMAIN lru_hash = {lru_list[k] : k \in 1..Len(lru_list)}
    /\ \A w \in DOMAIN lru_hash :
          lru_hash[w] \in 1..Len(lru_list) /\ lru_list[lru_hash[w]] = w

(* C17: Exact-LRU, in a state where the consistency invariant holds:
   set_to_erase(w) on a tracked way w leaves the set of tracked ways and the
   relative order of the other ways unchanged and keeps the invariant, and
   the update() that follows it directly returns w.  (A set_to_erase(w) step
   on a tracked way records w as hist.arg.) *)
C17_SetToErase ==
    /\ [](Ready("LRU") /\ hist.by = "set_to_erase" /\ Rets # <<>> =>
              Rets[1] = hist.arg)
    /\ [][\A way \in WayArgs \cap {hist'.arg} :
             (/\ Ready("LRU") /\ LRUConsistent
              /\ way \in Tracked
              /\ SetToErase(way)) =>
                 /\ DOMAIN lru_hash' = DOMAIN lru_hash
                 /\ SelectSeq(lru_list', LAMBDA x : x # way)
                        = SelectSeq(lru_list, LAMBDA x : x # way)
                 /\ Len(lru_list') = Len(lru_list)
                 /\ LruElem(lru_list') = way
                 /\ LRUConsistent']_vars

C17_Witness ==
    /\ Ready("LRU") /\ ways = 3 /\ LRUConsistent /\ hist.clean
    /\ hist.by = "set_to_erase" /\ hist.arg = 2 /\ ~hist.fresh
    /\ Rets = <<2>>

(* the proper ancestors of node k, and the nodes of the subtree under r *)
RECURSIVE Ancestors(_, _)
Ancestors(nodes, k) ==
    IF nodes[k].out = 0
    THEN {}
    ELSE {nodes[k].out} \cup Ancestors(nodes, nodes[k].out)

Subtree(nodes, r) ==
    LET below == Descendants(nodes, <<r>>, 1)
    IN {below[j] : j \in 1..Len(below)}

LeafOf(nodes, way) ==
    CHOOSE k \in 1..Len(nodes) : Len(nodes[k].kids) = 0 /\ nodes[k].value = way

\* the flag of internal node k points to the side that does not hold leaf
PointsAway(nodes, k, leaf) ==
    nodes[k].pointer =
        IF leaf \in Subtree(nodes, nodes[k].kids[1]) THEN Right ELSE Left

(* C18: Pseudo-LRU with a power-of-two ways >= 2, in every reachable state:
   touch(w) changes nothing but direction flags of internal nodes on the
   path from the root to the leaf labelled w; afterwards every flag on that
   path points to the side that does not hold w, every other flag is as it
   was, and a second touch(w) changes nothing.  (A touch(w) step on a leaf
   label records w as hist.arg.) *)
C18_TouchFrame ==
    [][\A way \in (0..(ways - 1)) \cap {hist'.arg} :
          (Ready("Pseudo-LRU") /\ ways >= 2 /\ Touch(way)) =>
              LET leaf == LeafOf(lru_tree, way)
                  path == Ancestors(lru_tree, leaf)
              IN /\ Len(lru_tree') = Len(lru_tree)
                 /\ \A k \in 1..Len(lru_tree) :
                       /\ [lru_tree'[k] EXCEPT !.pointer = Left]
                              = [lru_tree[k] EXCEPT !.pointer = Left]
                       /\ k \notin path =>
                              lru_tree'[k].pointer = lru_tree[k].pointer
                       /\ k \in path => PointsAway(lru_tree', k, leaf)
                 /\ PseudoTouch(lru_tree', way).nodes = lru_tree'
                 /\ pc' = "ready"]_vars

C18_Witness ==
    /\ Ready("Pseudo-LRU") /\ ways = 8 /\ ~hist.fresh
    /\ hist.by = "touch" /\ hist.arg = 5 /\ Rets = <<>>
    /\ \A k \in Ancestors(lru_tree, LeafOf(lru_tree, 5)) :
          PointsAway(lru_tree, k, LeafOf(lru_tree, 5))
    /\ \E k \in Internal \ Ancestors(lru_tree, LeafOf(lru_tree, 5)) :
          lru_tree[k].pointer = Right

(* C19: Pseudo-LRU with a power-of-two ways = n >= 2: the first n update()
   calls on a new instance, no other call in between, return each way of
   0..n-1 exactly once; after the n-th every direction flag is Left again,
   and the returns repeat with period n. *)
C19_VictimCycle ==
    (Ready("Pseudo-LRU") /\ ways >= 2 /\ hist.by = "new") =>
        /\ \A k \in 1..Len(Rets) :
              /\ Rets[k] \in 0..(ways - 1)
              /\ \A j \in 1..(k - 1) : k <= ways => Rets[j] # Rets[k]
              /\ k > ways => Rets[k] = Rets[k - ways]
        /\ Len(Rets) % ways = 0 => AllLeft

C19_Witness ==
    /\ Ready("Pseudo-LRU") /\ ways = 8 /\ hist.by = "new"
    /\ Len(Rets) = 8 /\ {Rets[k] : k \in 1..8} = 0..7 /\ AllLeft

(* C20: for every power-of-two ways the ids the constructor gives to the
   internal nodes, counted up from INT8_MIN, are all negative, so no
   internal node's value is a leaf label of [0, ways), and the lookup by
   value in touch(way), way in [0, ways), can only find the leaf labelled
   way. *)
C20_NoCollision ==
    Ready("Pseudo-LRU") =>
        /\ \A k \in Internal : lru_tree[k].value < 0
        /\ \A k \in Internal, l \in Leaves : lru_tree[k].value # lru_tree[l].value
        /\ \A way \in 0..(ways - 1) :
              LET found_it == TreeFindDepth(lru_tree, ToInt(way))
              IN found_it # 0 => /\ found_it \in Leaves
                                 /\ lru_tree[found_it].value = way

====
